---- MODULE Spec2Model ----
(***************************************************************************)
(* Model of cogs/gift_operationsapi.py (class GiftCodeAPI): the periodic   *)
(* sync pass sync_with_api, the on-demand operations add_giftcode,         *)
(* remove_giftcode and validate_and_clean_giftcode_file, the legacy        *)
(* migration, and the shared SQLite connection they all write through.     *)
(*                                                                         *)
(* Text (raw API lines, codes, dates as stored) is a tuple of one-character*)
(* strings, so that split(), the code regex, strptime and strftime are     *)
(* computed character by character as CPython computes them.               *)
(***************************************************************************)
EXTENDS Integers, Sequences, FiniteSets, TLC

\* ------------------------------------------------------------------------
\* Characters and text helpers
\* ------------------------------------------------------------------------
Digits == {"0", "1", "2", "3", "4", "5", "6", "7", "8", "9"}

Upper == {"A", "B", "C", "D", "E", "F", "G", "H", "I", "J", "K", "L", "M",
          "N", "O", "P", "Q", "R", "S", "T", "U", "V", "W", "X", "Y", "Z"}

Lower == {"a", "b", "c", "d", "e", "f", "g", "h", "i", "j", "k", "l", "m",
          "n", "o", "p", "q", "r", "s", "t", "u", "v", "w", "x", "y", "z"}

\* str.strip() / str.split() without argument cut on whitespace
IsSpace(c) == c \in {" ", "\t"}

DigitVal(c) ==
  CASE c = "0" -> 0 [] c = "1" -> 1 [] c = "2" -> 2 [] c = "3" -> 3
    [] c = "4" -> 4 [] c = "5" -> 5 [] c = "6" -> 6 [] c = "7" -> 7
    [] c = "8" -> 8 [] c = "9" -> 9

DigitChr(n) ==
  CASE n = 0 -> "0" [] n = 1 -> "1" [] n = 2 -> "2" [] n = 3 -> "3"
    [] n = 4 -> "4" [] n = 5 -> "5" [] n = 6 -> "6" [] n = 7 -> "7"
    [] n = 8 -> "8" [] n = 9 -> "9"

AllDigits(s) == \A i \in 1..Len(s) : s[i] \in Digits

RECURSIVE NumVal(_)
NumVal(s) ==
  IF s = <<>> THEN 0
  ELSE 10 * NumVal(SubSeq(s, 1, Len(s) - 1)) + DigitVal(s[Len(s)])

\* decimal text of n, without padding
RECURSIVE NumStr(_)
NumStr(n) ==
  IF n < 10 THEN <<DigitChr(n)>>
  ELSE Append(NumStr(n \div 10), DigitChr(n % 10))

\* decimal text of n, zero-padded to two digits (%d, %m of strftime)
Pad2(n) == IF n < 10 THEN <<"0", DigitChr(n)>> ELSE NumStr(n)

RECURSIVE LStrip(_)
LStrip(s) ==
  IF s # <<>> /\ IsSpace(s[1]) THEN LStrip(Tail(s)) ELSE s

RECURSIVE RStrip(_)
RStrip(s) ==
  IF s # <<>> /\ IsSpace(s[Len(s)])
  THEN RStrip(SubSeq(s, 1, Len(s) - 1))
  ELSE s

\* str.strip()
Strip(s) == RStrip(LStrip(s))

\* cut s at every character satisfying the separator test; Cut keeps empty
\* fields (str.split(sep)), the caller drops them for str.split()
RECURSIVE CutAt(_, _, _)
CutAt(s, seps, cur) ==
  IF s = <<>> THEN <<cur>>
  ELSE IF s[1] \in seps THEN <<cur>> \o CutAt(Tail(s), seps, <<>>)
  ELSE CutAt(Tail(s), seps, Append(cur, s[1]))

NonEmpty(f) == f # <<>>

\* str.split(): runs of whitespace separate, no empty tokens
Split(s) == SelectSeq(CutAt(s, {" ", "\t"}, <<>>), NonEmpty)

\* re.match(r"^[a-zA-Z0-9]+$", code) on a token that holds no whitespace
ReMatchAlnum(tok) ==
  /\ Len(tok) >= 1
  /\ \A i \in 1..Len(tok) : tok[i] \in (Upper \cup Lower \cup Digits)

\* ------------------------------------------------------------------------
\* Dates: datetime.strptime / datetime.strftime
\* ------------------------------------------------------------------------
NoDate == [d |-> 0, m |-> 0, y |-> 0]

IsLeap(y) == (y % 4 = 0 /\ y % 100 # 0) \/ y % 400 = 0

DaysInMonth(m, y) ==
  IF m = 2 THEN (IF IsLeap(y) THEN 29 ELSE 28)
  ELSE IF m \in {4, 6, 9, 11} THEN 30 ELSE 31

\* the day directive %d of strptime: 3[0-1]|[1-2]\d|0[1-9]|[1-9]
MatchDay(f) ==
  /\ Len(f) \in {1, 2}
  /\ AllDigits(f)
  /\ NumVal(f) \in 1..31

\* the month directive %m of strptime: 1[0-2]|0[1-9]|[1-9]
MatchMonth(f) ==
  /\ Len(f) \in {1, 2}
  /\ AllDigits(f)
  /\ NumVal(f) \in 1..12

\* the year directive %Y of strptime: \d\d\d\d
MatchYear(f) == Len(f) = 4 /\ AllDigits(f)

\* datetime(y, m, d) raises ValueError outside the calendar (MINYEAR is 1)
MakeDate(d, m, y) ==
  IF y >= 1 /\ d <= DaysInMonth(m, y)
  THEN [d |-> d, m |-> m, y |-> y]
  ELSE NoDate

\* datetime.strptime(tok, "%d.%m.%Y"); NoDate stands for ValueError
Strptime_dmY(tok) ==
  LET f == CutAt(tok, {"."}, <<>>)
  IN  IF Len(f) = 3 /\ MatchDay(f[1]) /\ MatchMonth(f[2]) /\ MatchYear(f[3])
      THEN MakeDate(NumVal(f[1]), NumVal(f[2]), NumVal(f[3]))
      ELSE NoDate

\* datetime.strptime(txt, "%Y-%m-%d"); NoDate stands for ValueError
Strptime_Ymd(txt) ==
  LET f == CutAt(txt, {"-"}, <<>>)
  IN  IF Len(f) = 3 /\ MatchYear(f[1]) /\ MatchMonth(f[2]) /\ MatchDay(f[3])
      THEN MakeDate(NumVal(f[3]), NumVal(f[2]), NumVal(f[1]))
      ELSE NoDate

\* date_obj.strftime("%Y-%m-%d"): %Y is the plain decimal year
Strftime_Ymd(dt) == NumStr(dt.y) \o <<"-">> \o Pad2(dt.m) \o <<"-">> \o Pad2(dt.d)

\* date_obj.strftime("%d.%m.%Y")
Strftime_dmY(dt) == Pad2(dt.d) \o <<".">> \o Pad2(dt.m) \o <<".">> \o NumStr(dt.y)


\* ------------------------------------------------------------------------
\* Bounds and input samples
\* ------------------------------------------------------------------------
\* sync passes and on-demand operations (add / remove / validate-and-clean)
\* started in one behaviour
MaxCalls == 2

\* storage errors (a failing execute or commit) injected
MaxFaults == 1

\* raw lines in one GET answer
MaxLines == 2

\* raw lines in one GET answer when the pass runs alone on every sample line
MaxParseLines == 2

\* outward calls of one pass that fail
MaxFailed == 1

C_ABC == <<"A", "B", "C", "1", "2", "3">>
C_XY9 == <<"X", "Y", "9">>

Codes == {C_ABC, C_XY9}

\* raw lines the remote may list (the "codes" array of the GET answer)
L_ok == <<"A", "B", "C", "1", "2", "3", " ", "0", "1", ".", "0", "6", ".", "2", "0", "2", "4">>
L_bad == <<"b", "a", "d", " ", "l", "i", "n", "e">>
L_feb31 == <<"X", "Y", "9", " ", "3", "1", ".", "0", "2", ".", "2", "0", "2", "4">>
L_short == <<"X", "Y", "9", " ", "1", ".", "6", ".", "2", "0", "2", "4">>
L_pad == <<" ", "A", "B", "C", "1", "2", "3", " ", " ", "2", "9", ".", "0", "2", ".", "2", "0", "2", "4", " ">>
L_tab == <<"b", "a", "d", "\t", "l", "i", "n", "e">>
L_tabok == <<"X", "Y", "9", "\t", "0", "2", ".", "0", "6", ".", "2", "0", "2", "4">>
L_code == <<"A", "_", "B", " ", "0", "1", ".", "0", "6", ".", "2", "0", "2", "4">>
L_empty == <<>>
L_one == <<"X", "Y", "9">>
L_three == <<"X", "Y", "9", " ", "0", "1", ".", "0", "6", ".", "2", "0", "2", "4", " ", "x">>
L_noleap == <<"X", "Y", "9", " ", "2", "9", ".", "0", "2", ".", "2", "0", "2", "3">>
L_month == <<"X", "Y", "9", " ", "0", "1", ".", "1", "3", ".", "2", "0", "2", "4">>
L_year2 == <<"X", "Y", "9", " ", "0", "1", ".", "0", "6", ".", "2", "4">>
L_year0 == <<"X", "Y", "9", " ", "0", "1", ".", "0", "6", ".", "0", "0", "0", "0">>
L_day0 == <<"X", "Y", "9", " ", "0", "0", ".", "0", "6", ".", "2", "0", "2", "4">>
L_dash == <<"X", "Y", "9", " ", "0", "1", "-", "0", "6", "-", "2", "0", "2", "4">>
L_abcbad == <<"A", "B", "C", "1", "2", "3", " ", "3", "1", ".", "0", "2", ".", "2", "0", "2", "4">>
L_old == <<"X", "Y", "9", " ", "0", "1", ".", "0", "6", ".", "0", "9", "9", "9">>

AllLines == {L_ok, L_bad, L_feb31, L_short, L_pad, L_tab, L_tabok, L_code,
             L_empty, L_one, L_three, L_noleap, L_month, L_year2, L_year0,
             L_day0, L_dash, L_abcbad, L_old}

\* the lines a GET answer is built from when calls run one at a time
SeqLines == {L_ok, L_old, L_abcbad}

\* datetime.now() of add_giftcode
Today == [d |-> 4, m |-> 11, y |-> 2026]

D_jun1 == Strftime_Ymd([d |-> 1, m |-> 6, y |-> 2024])
D_may1 == Strftime_Ymd([d |-> 1, m |-> 5, y |-> 2024])

Users == {<<"u", "1">>}
AdminIds == {<<"7">>}
AllianceIds == {<<"3">>}

\* how a remote write (POST / DELETE) can answer
RespKinds == {"transport", "non200", "badjson", "nondict",
              "ok_true", "ok_false", "ok_nokey"}

\* how the GET can answer
GetKinds == {"transport", "non200", "empty", "badjson", "error", "codes"}

\* outcomes of claim_giftcode_rewards_wos; "RAISED" is an exception
Outcomes == {"OK", "TIME_ERROR", "CDK_NOT_FOUND", "USAGE_LIMIT", "OTHER",
             "RAISED"}

SeqsUpTo(S, n) == UNION {[1..k -> S] : k \in 0..n}

RECURSIVE SetToSeq(_)
SetToSeq(S) ==
  IF S = {} THEN <<>>
  ELSE LET x == CHOOSE y \in S : TRUE IN <<x>> \o SetToSeq(S \ {x})

\* ------------------------------------------------------------------------
\* State
\* ------------------------------------------------------------------------
VARIABLES
  phase,           \* "init" until __init__ has run the migration, then "run"
  gift_codes,      \* table gift_codes as the shared connection sees it:
                   \* a function giftcode -> date text
  user_giftcodes,  \* table user_giftcodes as the connection sees it:
                   \* a set of <<user_id, giftcode>>
  disk,            \* the two tables as last committed
  sync,            \* locals of the sync_with_api pass in flight
  sync_log,        \* commit and outward calls of that pass, in order
  add,             \* locals of the add_giftcode call in flight
  rem,             \* locals of the remove_giftcode calls in flight,
                   \* "cmd": called on demand, "vca": called by
                   \* validate_and_clean_giftcode_file
  vca,             \* locals of validate_and_clean_giftcode_file
  used             \* calls started and storage errors so far

vars == <<phase, gift_codes, user_giftcodes, disk, sync, sync_log,
          add, rem, vca, used>>

Empty == [c \in {} |-> <<>>]

\* self.cursor.execute("SELECT giftcode, date FROM gift_codes") / fetchall()
SelectCodes(gc) == SetToSeq(DOMAIN gc)

\* InsertOrIgnore as INSERT OR REPLACE: the new date takes the row's place
InsertOrReplace(gc, code, date) ==
  [c \in DOMAIN gc \cup {code} |-> IF c = code THEN date ELSE gc[c]]

\* "INSERT OR IGNORE INTO gift_codes (giftcode, date) VALUES (?, ?)":
\* the primary key keeps the row that is already there
InsertOrIgnore(gc, code, date) ==
  IF code \in DOMAIN gc THEN gc
  ELSE [c \in DOMAIN gc \cup {code} |-> IF c = code THEN date ELSE gc[c]]

\* "DELETE FROM gift_codes WHERE giftcode = ?"
DeleteCode(gc, code) == [c \in DOMAIN gc \ {code} |-> gc[c]]

\* "DELETE FROM user_giftcodes WHERE giftcode = ?"
DeleteClaims(ug, code) == {r \in ug : r[2] # code}

\* FOREIGN KEY (giftcode) REFERENCES gift_codes(giftcode) ON DELETE CASCADE:
\* the claims that are left once the gift_codes row of code is deleted
OnDeleteCascade(ug, code) == {r \in ug : r[2] # code}

\* self.conn.commit(): what the connection sees becomes the committed state
Commit(gc, ug) == [gift_codes |-> gc, user_giftcodes |-> ug]

SyncIdle == [pc |-> "idle", resp |-> "none", ret |-> "none",
             db_codes |-> Empty, api_giftcodes |-> <<>>,
             valid_codes |-> <<>>,
             invalid_codes |-> <<>>, new_codes |-> <<>>,
             admin_ids |-> <<>>, auto_alliances |-> <<>>,
             gift_operations |-> FALSE, i |-> 0, j |-> 0]

\* a call is at "idle" (not running), at the await its pc names, or at
\* "return": it has returned ret and its caller has not gone on yet
AddIdle == [pc |-> "idle", giftcode |-> <<>>, called |-> FALSE,
            resp |-> "none", applied |-> FALSE, ret |-> "none"]

\* claims: the user_giftcodes rows the call deleted
RemIdle == [pc |-> "idle", giftcode |-> <<>>, from_validation |-> FALSE,
            called |-> FALSE, resp |-> "none", applied |-> FALSE,
            claims |-> 0, ret |-> "none"]

VcaIdle == [pc |-> "idle", rows |-> <<>>, i |-> 0, status |-> Empty,
            removed |-> <<>>, has_cog |-> TRUE]

\* the store a fresh process finds in db/app.sqlite: empty, or left by an
\* earlier run
InitStores ==
  { [gift_codes |-> Empty, user_giftcodes |-> {}],
    [gift_codes |-> [c \in {C_ABC} |-> D_jun1], user_giftcodes |-> {}],
    [gift_codes |-> [c \in {C_ABC} |-> D_jun1],
     user_giftcodes |-> {<<u, C_ABC>> : u \in Users}] }

Init ==
  /\ phase = "init"
  /\ disk \in InitStores
  /\ gift_codes = disk.gift_codes
  /\ user_giftcodes = disk.user_giftcodes
  /\ sync = SyncIdle
  /\ sync_log = <<>>
  /\ add = AddIdle
  /\ rem = [s \in {"cmd", "vca"} |-> RemIdle]
  /\ vca = VcaIdle
  /\ used = [calls |-> 0, faults |-> 0]

\* ------------------------------------------------------------------------
\* _maybe_migrate_from_old_dbs (called by __init__)
\* ------------------------------------------------------------------------
\* rows of the legacy gift_codes table, in the order the SELECT yields them
OldGiftRows ==
  { <<>>,
    <<[giftcode |-> C_XY9, date |-> D_may1]>>,
    <<[giftcode |-> C_ABC, date |-> D_may1]>> }

\* rows of the legacy user_giftcodes table
OldClaimRows ==
  { <<>> } \cup
  { <<[user_id |-> u, giftcode |-> C_XY9],
      [user_id |-> u, giftcode |-> C_ABC]>> : u \in Users }

RECURSIVE MigrateCodes(_, _)
MigrateCodes(rows, gc) ==
  IF rows = <<>> THEN gc
  ELSE MigrateCodes(Tail(rows),
                    InsertOrIgnore(gc, rows[1].giftcode, rows[1].date))

\* MigrateClaims without the foreign key: every legacy claim is copied
MigrateClaimsUnchecked(rows, gc, ug) ==
  ug \cup {<<rows[k].user_id, rows[k].giftcode>> : k \in 1..Len(rows)}

\* PRAGMA foreign_keys = ON: an INSERT OR IGNORE of a claim whose giftcode
\* has no gift_codes row raises IntegrityError, which ends the loop
RECURSIVE MigrateClaims(_, _, _)
MigrateClaims(rows, gc, ug) ==
  IF rows = <<>> THEN ug
  ELSE IF rows[1].giftcode \notin DOMAIN gc THEN ug
  ELSE MigrateClaims(Tail(rows), gc,
                     ug \cup {<<rows[1].user_id, rows[1].giftcode>>})

\* old_codes, old_claims: the rows the legacy tables hold
maybe_migrate_from_old_dbs(old_codes, old_claims) ==
  /\ phase = "init"
  /\ LET gc == MigrateCodes(old_codes, gift_codes)
         ug == MigrateClaims(old_claims, gc, user_giftcodes)
     IN  /\ gift_codes' = gc
         /\ user_giftcodes' = ug
         /\ disk' = Commit(gc, ug)
  /\ phase' = "run"
  /\ UNCHANGED <<sync, sync_log, add, rem, vca, used>>

\* ------------------------------------------------------------------------
\* sync_with_api
\* ------------------------------------------------------------------------
\* step 3, one line of the loop over api_giftcodes: "valid" with the code
\* and the parsed date, or "invalid" with the stripped line
ParseLine(code_line) ==
  LET line == Strip(code_line)
      parts == Split(line)
  IN  IF Len(parts) # 2
        THEN [valid |-> FALSE, line |-> line, code |-> <<>>, date |-> NoDate]
      ELSE IF ~ReMatchAlnum(parts[1])
        THEN [valid |-> FALSE, line |-> line, code |-> <<>>, date |-> NoDate]
      ELSE IF Strptime_dmY(parts[2]) = NoDate
        THEN [valid |-> FALSE, line |-> line, code |-> <<>>, date |-> NoDate]
      ELSE [valid |-> TRUE, line |-> line, code |-> parts[1],
            date |-> Strptime_dmY(parts[2])]

IsValidParse(p) == p.valid
IsInvalidParse(p) == ~p.valid

\* ParseLine, tabulated over the lines the remote may list
ParsedLine == [l \in AllLines |-> ParseLine(l)]

\* the dates the program formats: those of the lines, and today's
Dates == ({ParsedLine[l].date : l \in AllLines} \ {NoDate}) \cup {Today}

\* date_obj.strftime("%Y-%m-%d") (lines 292, 403), tabulated
FormattedDate == [date_obj \in Dates |-> Strftime_Ymd(date_obj)]

\* the texts the date column can hold
StoredDates == {FormattedDate[d] : d \in Dates} \cup {D_jun1, D_may1}

\* lines 369-370, tabulated: the date step 7 sends for a stored date;
\* NoDate when strptime("%Y-%m-%d") raises ValueError
PushedDate ==
  [db_date \in StoredDates |->
     LET date_obj == Strptime_Ymd(db_date)
     IN  IF date_obj = NoDate THEN NoDate ELSE Strftime_dmY(date_obj)]

Parses(api_giftcodes) ==
  [k \in 1..Len(api_giftcodes) |-> ParsedLine[api_giftcodes[k]]]

\* valid_codes: the (code, date_obj) pairs, in the order of the lines
ValidCodes(api_giftcodes) ==
  LET ps == SelectSeq(Parses(api_giftcodes), IsValidParse)
  IN  [k \in 1..Len(ps) |-> [code |-> ps[k].code, date |-> ps[k].date]]

\* invalid_codes: the stripped lines, in the order of the lines
InvalidCodes(api_giftcodes) ==
  LET ps == SelectSeq(Parses(api_giftcodes), IsInvalidParse)
  IN  [k \in 1..Len(ps) |-> ps[k].line]

\* step 4: the code sent with the DELETE for an invalid line,
\* invalid_line.split()[0] if ' ' in invalid_line else invalid_line
CleanupCode(invalid_line) ==
  IF \E k \in 1..Len(invalid_line) : invalid_line[k] = " "
  THEN Split(invalid_line)[1]
  ELSE invalid_line

\* CleanupCode, tabulated over the invalid lines of the remote
CleanupCodes ==
  [invalid_line \in {ParsedLine[l].line : l \in {x \in AllLines : ~ParsedLine[x].valid}}
     |-> CleanupCode(invalid_line)]

\* step 5, the loop over valid_codes: the rows inserted and new_codes.
\* failAt is the index of the execute that raises (0: none does)
RECURSIVE InsertLoop(_, _, _, _, _, _)
InsertLoop(valid, k, db, gc, new, failAt) ==
  IF k > Len(valid) THEN [gift_codes |-> gc, new_codes |-> new]
  ELSE LET code == valid[k].code
           formatted_date == FormattedDate[valid[k].date]
       IN  IF code \in DOMAIN db \/ k = failAt
           THEN InsertLoop(valid, k + 1, db, gc, new, failAt)
           ELSE InsertLoop(valid, k + 1, db,
                           InsertOrIgnore(gc, code, formatted_date),
                           Append(new, [code |-> code,
                                        date |-> formatted_date]),
                           failAt)

Ev(op, code, to, ok) == [op |-> op, code |-> code, to |-> to, ok |-> ok]

\* step 7: the first snapshot row from position k on whose stored date
\* strptime("%Y-%m-%d") accepts (the others raise ValueError and are
\* skipped); Len + 1 when there is none
RECURSIVE NextPost(_, _, _)
NextPost(order, db, k) ==
  IF k > Len(order) THEN k
  ELSE IF PushedDate[db[order[k]]] # NoDate THEN k
  ELSE NextPost(order, db, k + 1)

\* the pass has no await left: return True
SyncReturns(s) == [s EXCEPT !.pc = "return", !.ret = "True", !.i = 0, !.j = 0]

\* enter step 7 at snapshot row k (or return when no row is left)
GoPushBack(s, k) ==
  LET order == SelectCodes(s.db_codes)
      n == NextPost(order, s.db_codes, k)
  IN  IF n > Len(order) THEN SyncReturns(s)
      ELSE [s EXCEPT !.pc = "post", !.i = n, !.j = 0]

\* enter the auto-claim loop of step 6, or step 7 when it has nothing to do
GoAutoClaim(s, has_cog) ==
  IF s.auto_alliances = <<>> THEN GoPushBack(s, 1)
  ELSE IF has_cog
    THEN [s EXCEPT !.gift_operations = TRUE, !.pc = "redeem",
                   !.i = 1, !.j = 1]
  ELSE GoPushBack(s, 1)

\* enter step 6 with the rows the two SELECTs returned
GoDispatch(s, admins, alliances, has_cog) ==
  LET t == [s EXCEPT !.admin_ids = admins, !.auto_alliances = alliances]
  IN  IF s.new_codes = <<>> THEN GoPushBack(s, 1)
      ELSE IF admins # <<>> THEN [t EXCEPT !.pc = "notify", !.i = 1, !.j = 1]
      ELSE GoAutoClaim(t, has_cog)

\* what the pass meets on its way from step 5 to the next await:
\* fault: 0 (no storage error), -1 (conn.commit raises), -2 (a SELECT of
\* step 6 raises) or the index in valid_codes of the execute that raises;
\* admins, alliances: the rows of
\* admin with is_initial = 1 and of giftcodecontrol with status = 1;
\* has_cog: bot.get_cog finds GiftOperations with the method asked for
Met(fault, admins, alliances, has_cog) ==
  [fault |-> fault, admins |-> admins, alliances |-> alliances,
   has_cog |-> has_cog]

\* the storage errors step 5 can meet
InsertFaults(s) ==
  {0} \cup
  (IF used.faults < MaxFaults
   THEN {-1, -2} \cup {k \in 1..Len(s.valid_codes) :
                         s.valid_codes[k].code \notin DOMAIN s.db_codes}
   ELSE {})

\* InsertAndDispatch that also deletes the local rows (and their claims)
\* of the codes step 4 asked the remote to delete
InsertAndPurge(s, met, log) ==
  LET failAt == IF met.fault > 0 THEN met.fault ELSE 0
      r == InsertLoop(s.valid_codes, 1, s.db_codes, gift_codes, <<>>, failAt)
      t == [s EXCEPT !.new_codes = r.new_codes]
      purged == {CleanupCodes[s.invalid_codes[k]] :
                   k \in DOMAIN s.invalid_codes}
      gc == [c \in DOMAIN r.gift_codes \ purged |-> r.gift_codes[c]]
      ug == {row \in user_giftcodes : row[2] \notin purged}
  IN  /\ met.fault \in InsertFaults(s)
      /\ met.fault = -2 => r.new_codes # <<>>
      /\ gift_codes' = gc
      /\ user_giftcodes' = ug
      /\ disk' = IF met.fault = -1 THEN disk ELSE Commit(gc, ug)
      /\ used' = [used EXCEPT !.faults = IF met.fault = 0 THEN @ ELSE @ + 1]
      /\ sync_log' = Append(log, Ev("COMMIT", <<>>, <<>>, met.fault # -1))
      /\ sync' = IF met.fault = -2
                 THEN GoPushBack(t, 1)
                 ELSE GoDispatch(t, SetToSeq(met.admins),
                                 SetToSeq(met.alliances), met.has_cog)

\* steps 5 and 6 up to the first await: insert, commit, read the recipients.
\* log is the log up to the call before
InsertAndDispatch(s, met, log) ==
  LET failAt == IF met.fault > 0 THEN met.fault ELSE 0
      r == InsertLoop(s.valid_codes, 1, s.db_codes, gift_codes, <<>>, failAt)
      t == [s EXCEPT !.new_codes = r.new_codes]
  IN  /\ met.fault \in InsertFaults(s)
      /\ met.fault = -2 => r.new_codes # <<>>
      /\ gift_codes' = r.gift_codes
      /\ user_giftcodes' = user_giftcodes
      /\ disk' = IF met.fault = -1 THEN disk
                 ELSE Commit(r.gift_codes, user_giftcodes)
      /\ used' = [used EXCEPT !.faults = IF met.fault = 0 THEN @ ELSE @ + 1]
      /\ sync_log' = Append(log, Ev("COMMIT", <<>>, <<>>, met.fault # -1))
      /\ sync' = IF met.fault = -2
                 THEN GoPushBack(t, 1)
                 ELSE GoDispatch(t, SetToSeq(met.admins),
                                 SetToSeq(met.alliances), met.has_cog)

\* start_api_check that starts a pass without awaiting the one before
NotAwaiting == sync.pc # "stopped"

\* start_api_check is in one of its sleeps (lines 193, 197): it awaits
\* every pass it starts (lines 194, 198), so none is in flight
Sleeping == sync.pc = "idle"

\* an exception that reaches start_api_check, were one to leave the pass
Uncaught == "raise"

\* lines 378-380: an exception no inner handler took is printed and the
\* pass returns None
Caught == "None"

\* lines 223-234: snapshot the table, send the GET
SyncStart ==
  /\ phase = "run"
  /\ Sleeping
  /\ used.calls < MaxCalls
  /\ sync' = [SyncIdle EXCEPT !.pc = "get", !.db_codes = gift_codes]
  /\ sync_log' = <<>>
  /\ used' = [used EXCEPT !.calls = @ + 1]
  /\ UNCHANGED <<phase, gift_codes, user_giftcodes, disk, add, rem,
                 vca>>

\* lines 225-226: the SELECT of the snapshot raises; the pass ends in its
\* outer except clause before any call
SyncSelectFails ==
  /\ phase = "run"
  /\ Sleeping
  /\ used.calls < MaxCalls
  /\ used.faults < MaxFaults
  /\ sync' = [SyncIdle EXCEPT !.pc = "return", !.ret = Caught]
  /\ sync_log' = <<>>
  /\ used' = [calls |-> used.calls + 1, faults |-> used.faults + 1]
  /\ UNCHANGED <<phase, gift_codes, user_giftcodes, disk, add, rem,
                 vca>>

\* what sync_with_api returns when the GET answered with kind (lines
\* 237-253), or raised (lines 378-380)
PullOutcome(kind) ==
  IF kind = "error" THEN "False"
  ELSE IF kind = "transport" THEN Caught
  ELSE "None"

\* SyncGetFailed that takes an empty answer for "the remote holds no code"
\* and empties the table
SyncGetFailedPurging(kind) ==
  /\ sync.pc = "get"
  /\ kind # "codes"
  /\ sync' = [sync EXCEPT !.pc = "return", !.resp = kind,
                          !.ret = PullOutcome(kind)]
  /\ sync_log' = Append(sync_log, Ev("GET", <<>>, <<>>, FALSE))
  /\ gift_codes' = IF kind = "empty" THEN Empty ELSE gift_codes
  /\ UNCHANGED <<phase, user_giftcodes, disk, add, rem, vca, used>>

\* lines 232-253: the GET failed ("transport": it raised), or answered
\* without data, or with an error payload
SyncGetFailed(kind) ==
  /\ sync.pc = "get"
  /\ kind # "codes"
  /\ sync' = [sync EXCEPT !.pc = "return", !.resp = kind,
                          !.ret = PullOutcome(kind)]
  /\ sync_log' = Append(sync_log, Ev("GET", <<>>, <<>>, FALSE))
  /\ UNCHANGED <<phase, gift_codes, user_giftcodes, disk, add, rem,
                 vca, used>>

\* SyncGetCodes that runs the inserts and the commit of step 5 before the
\* cleanup of step 4
SyncGetCodesInsertFirst(api_giftcodes, met) ==
  /\ sync.pc = "get"
  /\ LET s == [sync EXCEPT !.resp = "codes",
                           !.api_giftcodes = api_giftcodes,
                           !.valid_codes = ValidCodes(api_giftcodes),
                           !.invalid_codes = InvalidCodes(api_giftcodes)]
         log == Append(sync_log, Ev("GET", <<>>, <<>>, TRUE))
         r == InsertLoop(s.valid_codes, 1, s.db_codes, gift_codes, <<>>, 0)
     IN  IF s.invalid_codes # <<>>
         THEN /\ sync' = [s EXCEPT !.pc = "delete", !.i = 1]
              /\ sync_log' = Append(log, Ev("COMMIT", <<>>, <<>>, TRUE))
              /\ gift_codes' = r.gift_codes
              /\ disk' = Commit(r.gift_codes, user_giftcodes)
              /\ UNCHANGED <<user_giftcodes, used>>
         ELSE InsertAndDispatch(s, met, log)
  /\ UNCHANGED <<phase, add, rem, vca>>

\* lines 255-276 and on to the next await: the GET answered with the lines
\* api_giftcodes
SyncGetCodes(api_giftcodes, met) ==
  /\ sync.pc = "get"
  /\ LET s == [sync EXCEPT !.resp = "codes",
                           !.api_giftcodes = api_giftcodes,
                           !.valid_codes = ValidCodes(api_giftcodes),
                           !.invalid_codes = InvalidCodes(api_giftcodes)]
         log == Append(sync_log, Ev("GET", <<>>, <<>>, TRUE))
     IN  IF s.invalid_codes # <<>>
         THEN /\ sync' = [s EXCEPT !.pc = "delete", !.i = 1]
              /\ sync_log' = log
              /\ UNCHANGED <<gift_codes, user_giftcodes, disk, used>>
         ELSE InsertAndDispatch(s, met, log)
  /\ UNCHANGED <<phase, add, rem, vca>>

\* lines 281-287: one DELETE of step 4 and its sleep, then the next one, or
\* steps 5 and 6 after the last; applied is FALSE when the DELETE raised or
\* the remote did not carry it out
SyncDelete(applied, met) ==
  /\ sync.pc = "delete"
  /\ LET code == CleanupCodes[sync.invalid_codes[sync.i]]
         log == Append(sync_log, Ev("DELETE", code, <<>>, applied))
     IN  IF sync.i < Len(sync.invalid_codes)
         THEN /\ sync' = [sync EXCEPT !.i = @ + 1]
              /\ sync_log' = log
              /\ UNCHANGED <<gift_codes, user_giftcodes, disk, used>>
         ELSE InsertAndDispatch(sync, met, log)
  /\ UNCHANGED <<phase, add, rem, vca>>

\* SyncNotify that gives up the notifications at the first delivery that
\* fails
SyncNotifyUntilFailure(delivered, has_cog) ==
  /\ sync.pc = "notify"
  /\ sync_log' = Append(sync_log,
                        Ev("NOTIFY", sync.new_codes[sync.i].code,
                           sync.admin_ids[sync.j], delivered))
  /\ sync' = IF ~delivered THEN GoAutoClaim(sync, has_cog)
             ELSE IF sync.j < Len(sync.admin_ids)
               THEN [sync EXCEPT !.j = @ + 1]
             ELSE IF sync.i < Len(sync.new_codes)
               THEN [sync EXCEPT !.i = @ + 1, !.j = 1]
             ELSE GoAutoClaim(sync, has_cog)
  /\ UNCHANGED <<phase, gift_codes, user_giftcodes, disk, add, rem,
                 vca, used>>

\* lines 337-345: one admin is fetched and sent the embed of one new code;
\* delivered tells whether fetch_user and send went through
SyncNotify(delivered, has_cog) ==
  /\ sync.pc = "notify"
  /\ sync_log' = Append(sync_log,
                        Ev("NOTIFY", sync.new_codes[sync.i].code,
                           sync.admin_ids[sync.j], delivered))
  /\ sync' = IF sync.j < Len(sync.admin_ids)
               THEN [sync EXCEPT !.j = @ + 1]
             ELSE IF sync.i < Len(sync.new_codes)
               THEN [sync EXCEPT !.i = @ + 1, !.j = 1]
             ELSE GoAutoClaim(sync, has_cog)
  /\ UNCHANGED <<phase, gift_codes, user_giftcodes, disk, add, rem,
                 vca, used>>

\* lines 351-357: use_giftcode_for_alliance for one alliance and one new
\* code, and its sleep; redeemed is FALSE when the call raised
SyncRedeem(redeemed) ==
  /\ sync.pc = "redeem"
  /\ sync_log' = Append(sync_log,
                        Ev("REDEEM", sync.new_codes[sync.j].code,
                           sync.auto_alliances[sync.i], redeemed))
  /\ sync' = IF sync.j < Len(sync.new_codes)
               THEN [sync EXCEPT !.j = @ + 1]
             ELSE IF sync.i < Len(sync.auto_alliances)
               THEN [sync EXCEPT !.i = @ + 1, !.j = 1]
             ELSE GoPushBack(sync, 1)
  /\ UNCHANGED <<phase, gift_codes, user_giftcodes, disk, add, rem,
                 vca, used>>

\* lines 367-374: one POST of step 7 and its sleep
SyncPost(applied) ==
  /\ sync.pc = "post"
  /\ LET db_code == SelectCodes(sync.db_codes)[sync.i]
         formatted_date == PushedDate[sync.db_codes[db_code]]
     IN  sync_log' = Append(sync_log,
                            Ev("POST", db_code, formatted_date, applied))
  /\ sync' = GoPushBack(sync, sync.i + 1)
  /\ UNCHANGED <<phase, gift_codes, user_giftcodes, disk, add, rem, vca,
                 used>>

\* the caller (start_api_check) has the value sync_with_api returned and
\* goes to sleep; an exception would end its loop (lines 199-200)
SyncReturn ==
  /\ sync.pc = "return"
  /\ sync' = IF sync.ret = Uncaught THEN [SyncIdle EXCEPT !.pc = "stopped"]
             ELSE SyncIdle
  /\ sync_log' = <<>>
  /\ UNCHANGED <<phase, gift_codes, user_giftcodes, disk, add, rem,
                 vca, used>>

\* the length of the longest answer of Bodies
Longest(Bodies) ==
  CHOOSE n \in {Len(b) : b \in Bodies} : \A b \in Bodies : Len(b) <= n

\* what step 5 and step 6 can meet; the fields no line reads are fixed
Mets(n, AdminSets, AllianceSets, Cogs) ==
  { Met(f, a, g, c) : f \in -2..n, a \in AdminSets, g \in AllianceSets,
                      c \in Cogs }

\* the outward calls of the pass that have failed so far
OutwardFailures(log) ==
  Cardinality({k \in 1..Len(log) :
                 log[k].op \in {"DELETE", "NOTIFY", "REDEEM", "POST"}
                   /\ ~log[k].ok})

\* the outcomes the next outward call may have: one of Oks, a failure
\* only while fewer than MaxFailed calls of the pass have failed
Answers(Oks) ==
  IF OutwardFailures(sync_log) < MaxFailed THEN Oks ELSE Oks \ {FALSE}

\* the resumptions of the pass after its awaits, with the lines of the
\* remote drawn from Bodies, what steps 5 and 6 meet from MetSet and the
\* outcomes of its outward calls from Oks
sync_with_api_awaits(Bodies, MetSet, Oks) ==
  \/ /\ sync.pc = "get"
     /\ \E kind \in GetKinds : SyncGetFailed(kind)
  \/ /\ sync.pc = "get"
     /\ \E api_giftcodes \in Bodies, met \in MetSet :
          SyncGetCodes(api_giftcodes, met)
  \/ /\ sync.pc = "delete"
     /\ \E applied \in Answers(Oks), met \in MetSet :
          SyncDelete(applied, met)
  \/ /\ sync.pc = "notify"
     /\ \E delivered \in Answers(Oks), met \in MetSet :
          SyncNotify(delivered, met.has_cog)
  \/ /\ sync.pc = "redeem"
     /\ \E redeemed \in Answers(Oks) : SyncRedeem(redeemed)
  \/ /\ sync.pc = "post"
     /\ \E applied \in Answers(Oks) : SyncPost(applied)
  \/ SyncReturn

\* the pass
sync_with_api(Bodies, MetSet, Oks) ==
  \/ SyncStart
  \/ SyncSelectFails
  \/ sync_with_api_awaits(Bodies, MetSet, Oks)
\* ------------------------------------------------------------------------
\* Remote writes as add_giftcode and remove_giftcode see them
\* ------------------------------------------------------------------------
\* whether the remote carried the write out, given how it answered: it did
\* when it says success, it did not when it says failure or never answered
\* with 200; an answer that says neither leaves both open
MayApply(kind) ==
  CASE kind = "ok_true" -> {TRUE}
    [] kind \in {"transport", "non200", "ok_false"} -> {FALSE}
    [] OTHER -> BOOLEAN

\* the storage errors one local write (execute, then commit) can meet:
\* 0 none, 1 the execute raises, -1 the commit raises
WriteFaults == {0} \cup (IF used.faults < MaxFaults THEN {1, -1} ELSE {})

\* self.conn.rollback(): the connection sees the committed state again
Rollback ==
  /\ gift_codes' = disk.gift_codes
  /\ user_giftcodes' = disk.user_giftcodes
  /\ disk' = disk

\* ------------------------------------------------------------------------
\* add_giftcode
\* ------------------------------------------------------------------------
\* AddRefuses without the SELECT
AddRefusesNever(giftcode) == FALSE

\* lines 386-388: the SELECT finds the code
AddRefuses(giftcode) == giftcode \in DOMAIN gift_codes

\* result.get('success', True) of lines 399-404; a body that is no JSON
\* gives result = {}
AddRemoteSuccess(kind) == kind \in {"ok_true", "ok_nokey", "badjson"}

\* the answers on which add_giftcode leaves through its except clause:
\* session.post raised, or result is no dict and result.get raised
AddRaises(kind) == kind \in {"transport", "nondict"}

\* lines 385-396: refuse a code the table holds, else send the POST
AddStart(giftcode) ==
  /\ phase = "run"
  /\ add.pc = "idle"
  /\ used.calls < MaxCalls
  /\ add' = IF AddRefuses(giftcode)
            THEN [AddIdle EXCEPT !.pc = "return", !.giftcode = giftcode,
                                 !.ret = "False"]
            ELSE [AddIdle EXCEPT !.pc = "post", !.giftcode = giftcode,
                                 !.called = TRUE]
  /\ used' = [used EXCEPT !.calls = @ + 1]
  /\ UNCHANGED <<phase, gift_codes, user_giftcodes, disk, sync,
                 sync_log, rem, vca>>

\* lines 396-420: the POST answered with kind (or raised); insert and
\* commit on success, roll back on any exception
AddResp(kind, applied, fault) ==
  /\ add.pc = "post"
  /\ applied \in MayApply(kind)
  /\ fault \in (IF AddRemoteSuccess(kind) THEN WriteFaults ELSE {0})
  /\ used' = [used EXCEPT !.faults = IF fault = 0 THEN @ ELSE @ + 1]
  /\ LET done(ret) == [add EXCEPT !.pc = "return", !.resp = kind,
                                  !.applied = applied, !.ret = ret]
     IN  IF AddRaises(kind) \/ fault # 0
           THEN /\ Rollback
                /\ add' = done("False")
         ELSE IF AddRemoteSuccess(kind)
           THEN LET gc == InsertOrIgnore(gift_codes, add.giftcode,
                                         FormattedDate[Today])
                IN  /\ gift_codes' = gc
                    /\ user_giftcodes' = user_giftcodes
                    /\ disk' = Commit(gc, user_giftcodes)
                    /\ add' = done("True")
         ELSE /\ UNCHANGED <<gift_codes, user_giftcodes, disk>>
              /\ add' = done("False")
  /\ UNCHANGED <<phase, sync, sync_log, rem, vca>>

\* the caller has the value add_giftcode returned
AddReturn ==
  /\ add.pc = "return"
  /\ add' = AddIdle
  /\ UNCHANGED <<phase, gift_codes, user_giftcodes, disk, sync,
                 sync_log, rem, vca, used>>

\* the resumptions of add_giftcode, the POST answering with one of Kinds
add_giftcode_awaits(Kinds) ==
  \/ /\ add.pc = "post"
     /\ \E kind \in Kinds, applied \in BOOLEAN, fault \in {-1, 0, 1} :
          AddResp(kind, applied, fault)
  \/ AddReturn

add_giftcode(Kinds) ==
  \/ \E giftcode \in Codes : AddStart(giftcode)
  \/ add_giftcode_awaits(Kinds)

\* ------------------------------------------------------------------------
\* remove_giftcode
\* ------------------------------------------------------------------------
\* RemRefuses without the guard
RemRefusesNever(from_validation) == FALSE

\* the guard of lines 428-429
RemRefuses(from_validation) == ~from_validation

\* bool(result.get('success', False) or ('success' in result)), line 444
RemRemoteSuccess(kind) == kind \in {"ok_true", "ok_false"}

\* remove_giftcode up to its first await (lines 427-435)
RemCall(giftcode, from_validation) ==
  IF RemRefuses(from_validation)
  THEN [RemIdle EXCEPT !.pc = "return", !.giftcode = giftcode,
                       !.from_validation = from_validation, !.ret = "False"]
  ELSE [RemIdle EXCEPT !.pc = "delete", !.giftcode = giftcode,
                       !.from_validation = from_validation, !.called = TRUE]

\* remove_giftcode called on demand
RemStart(giftcode, from_validation) ==
  /\ phase = "run"
  /\ rem["cmd"].pc = "idle"
  /\ used.calls < MaxCalls
  /\ rem' = [rem EXCEPT !["cmd"] = RemCall(giftcode, from_validation)]
  /\ used' = [used EXCEPT !.calls = @ + 1]
  /\ UNCHANGED <<phase, gift_codes, user_giftcodes, disk, sync,
                 sync_log, add, vca>>

\* lines 435-463: the DELETE answered with kind (or raised); on success
\* delete the claims and the code and commit, roll back when that raises
RemResp(slot, kind, applied, fault) ==
  /\ rem[slot].pc = "delete"
  /\ applied \in MayApply(kind)
  /\ fault \in (IF RemRemoteSuccess(kind) THEN WriteFaults ELSE {0})
  /\ used' = [used EXCEPT !.faults = IF fault = 0 THEN @ ELSE @ + 1]
  /\ LET giftcode == rem[slot].giftcode
         done(ret) == [rem EXCEPT ![slot].pc = "return",
                                  ![slot].resp = kind,
                                  ![slot].applied = applied,
                                  ![slot].ret = ret]
         deleted(n) == [done("True") EXCEPT ![slot].claims = n]
     IN  IF ~RemRemoteSuccess(kind)
           THEN /\ UNCHANGED <<gift_codes, user_giftcodes, disk>>
                /\ rem' = done("False")
         ELSE IF fault # 0
           THEN /\ Rollback
                /\ rem' = done("False")
         ELSE LET ug == DeleteClaims(user_giftcodes, giftcode)
                  gc == DeleteCode(gift_codes, giftcode)
              IN  /\ user_giftcodes' = OnDeleteCascade(ug, giftcode)
                  /\ gift_codes' = gc
                  /\ disk' = Commit(gc, OnDeleteCascade(ug, giftcode))
                  /\ rem' = deleted(Cardinality(user_giftcodes \ ug))
  /\ UNCHANGED <<phase, sync, sync_log, add, vca>>

\* the on-demand caller has the value remove_giftcode returned
RemReturn ==
  /\ rem["cmd"].pc = "return"
  /\ rem' = [rem EXCEPT !["cmd"] = RemIdle]
  /\ UNCHANGED <<phase, gift_codes, user_giftcodes, disk, sync,
                 sync_log, add, vca, used>>

\* the resumptions of remove_giftcode, the DELETE answering with one of
\* Kinds
remove_giftcode_awaits(Kinds) ==
  \/ \E slot \in {"cmd", "vca"} :
       /\ rem[slot].pc = "delete"
       /\ \E kind \in Kinds, applied \in BOOLEAN, fault \in {-1, 0, 1} :
            RemResp(slot, kind, applied, fault)
  \/ RemReturn

remove_giftcode(Kinds) ==
  \/ \E giftcode \in Codes, from_validation \in BOOLEAN :
       RemStart(giftcode, from_validation)
  \/ remove_giftcode_awaits(Kinds)

\* ------------------------------------------------------------------------
\* validate_and_clean_giftcode_file
\* ------------------------------------------------------------------------
\* CleanStatuses short of one status
CleanStatusesTwo == {"TIME_ERROR", "CDK_NOT_FOUND"}

\* status in {"TIME_ERROR", "CDK_NOT_FOUND", "USAGE_LIMIT"}, line 505
CleanStatuses == {"TIME_ERROR", "CDK_NOT_FOUND", "USAGE_LIMIT"}

\* the sleep after one code, then the claim of the next code or the return
VcaNext(v) ==
  IF v.i < Len(v.rows)
  THEN [v EXCEPT !.pc = "claim", !.i = @ + 1]
  ELSE [v EXCEPT !.pc = "return"]

\* lines 487-500: read the codes, look the cog up, claim the first code
VcaStart(has_cog) ==
  /\ phase = "run"
  /\ vca.pc = "idle"
  /\ used.calls < MaxCalls
  /\ LET rows == SelectCodes(gift_codes)
     IN  vca' = IF rows = <<>>
                  THEN [VcaIdle EXCEPT !.pc = "return"]
                ELSE IF ~has_cog
                  THEN [VcaIdle EXCEPT !.pc = "return", !.rows = rows,
                                       !.has_cog = FALSE]
                ELSE [VcaIdle EXCEPT !.pc = "claim", !.rows = rows, !.i = 1]
  /\ used' = [used EXCEPT !.calls = @ + 1]
  /\ UNCHANGED <<phase, gift_codes, user_giftcodes, disk, sync,
                 sync_log, add, rem>>

\* lines 499-506: claim_giftcode_rewards_wos answered outcome for the code
\* at hand ("RAISED": it raised, status is None); a cleaning status calls
\* remove_giftcode(code, from_validation=True)
VcaClaim(outcome) ==
  /\ vca.pc = "claim"
  /\ LET code == vca.rows[vca.i]
         status == IF outcome = "RAISED" THEN "None" ELSE outcome
         v == [vca EXCEPT !.status =
                 [c \in DOMAIN vca.status \cup {code} |->
                    IF c = code THEN outcome ELSE vca.status[c]]]
     IN  IF status \in CleanStatuses
         THEN /\ vca' = [v EXCEPT !.pc = "remove",
                                  !.removed = Append(@, code)]
              /\ rem' = [rem EXCEPT !["vca"] = RemCall(code, TRUE)]
         ELSE /\ vca' = VcaNext(v)
              /\ rem' = rem
  /\ UNCHANGED <<phase, gift_codes, user_giftcodes, disk, sync,
                 sync_log, add, used>>

\* lines 506-508: remove_giftcode returned; sleep, then the next code
VcaResume ==
  /\ vca.pc = "remove"
  /\ rem["vca"].pc = "return"
  /\ vca' = VcaNext(vca)
  /\ rem' = [rem EXCEPT !["vca"] = RemIdle]
  /\ UNCHANGED <<phase, gift_codes, user_giftcodes, disk, sync,
                 sync_log, add, used>>

\* the caller has validate_and_clean_giftcode_file back
VcaReturn ==
  /\ vca.pc = "return"
  /\ vca' = VcaIdle
  /\ UNCHANGED <<phase, gift_codes, user_giftcodes, disk, sync,
                 sync_log, add, rem, used>>

\* the resumptions of validate_and_clean_giftcode_file, the claims
\* answering with one of Outs
validate_and_clean_giftcode_file_awaits(Outs) ==
  \/ /\ vca.pc = "claim"
     /\ \E outcome \in Outs : VcaClaim(outcome)
  \/ VcaResume
  \/ VcaReturn

validate_and_clean_giftcode_file(Outs, Cogs) ==
  \/ \E has_cog \in Cogs : VcaStart(has_cog)
  \/ validate_and_clean_giftcode_file_awaits(Outs)

\* __init__, lines 46-49
Migrate ==
  /\ phase = "init"
  /\ \E old_codes \in OldGiftRows, old_claims \in OldClaimRows :
       maybe_migrate_from_old_dbs(old_codes, old_claims)

\* ------------------------------------------------------------------------
\* The program: the scheduler's passes and the on-demand calls, interleaved
\* at their awaits
\* ------------------------------------------------------------------------
\* when calls interleave, the remote lists few lines, every table of
\* recipients has its row and the answers are the plain ones
PassBodies == {<<>>, <<L_ok>>, <<L_abcbad>>, <<L_ok, L_abcbad>>}

PassMets == Mets(Longest(PassBodies), {AdminIds}, {AllianceIds}, {TRUE})

PassKinds == {"ok_true", "non200", "transport"}

PassOutcomes == {"OK", "USAGE_LIMIT"}

Next ==
  \/ Migrate
  \/ sync_with_api(PassBodies, PassMets, {TRUE})
  \/ add_giftcode(PassKinds)
  \/ remove_giftcode(PassKinds)
  \/ validate_and_clean_giftcode_file(PassOutcomes, {TRUE})

Spec == Init /\ [][Next]_vars

\* ------------------------------------------------------------------------
\* The calls one at a time, with every answer the remote, the store and the
\* collaborators can give
\* ------------------------------------------------------------------------
\* no call is between its first line and its return
Quiet ==
  /\ sync.pc = "idle"
  /\ add.pc = "idle"
  /\ vca.pc = "idle"
  /\ \A slot \in DOMAIN rem : rem[slot].pc = "idle"

SeqBodies == SeqsUpTo(SeqLines, MaxLines)

SeqMets == Mets(Longest(SeqBodies), SUBSET AdminIds, SUBSET AllianceIds, BOOLEAN)

NextSeq ==
  \/ Migrate
  \/ Quiet /\ SyncStart
  \/ Quiet /\ SyncSelectFails
  \/ sync_with_api_awaits(SeqBodies, SeqMets, BOOLEAN)
  \/ Quiet /\ \E giftcode \in Codes : AddStart(giftcode)
  \/ add_giftcode_awaits(RespKinds)
  \/ Quiet /\ \E giftcode \in Codes, from_validation \in BOOLEAN :
                RemStart(giftcode, from_validation)
  \/ remove_giftcode_awaits(RespKinds)
  \/ Quiet /\ \E has_cog \in BOOLEAN : VcaStart(has_cog)
  \/ validate_and_clean_giftcode_file_awaits(Outcomes)

SpecSeq == Init /\ [][NextSeq]_vars

\* ------------------------------------------------------------------------
\* One pass alone, the remote listing any of the sample lines
\* ------------------------------------------------------------------------
ParseBodies == SeqsUpTo(AllLines, MaxParseLines)

ParseMets == Mets(0, {AdminIds}, {AllianceIds}, {TRUE})

NextParse ==
  \/ Migrate
  \/ used.calls = 0 /\ SyncStart
  \/ sync_with_api_awaits(ParseBodies, ParseMets, {TRUE})

SpecParse == Init /\ [][NextParse]_vars

\* ------------------------------------------------------------------------
\* The scheduler alone: start_api_check and its passes. The event loop
\* resumes a task whose sleep is over or whose call has answered or timed
\* out, which is what the fairness conditions say
\* ------------------------------------------------------------------------
SchedMets ==
  Mets(Longest(PassBodies), SUBSET AdminIds, SUBSET AllianceIds, BOOLEAN)

\* start_api_check wakes up and calls sync_with_api
SchedWakes ==
  \/ SyncStart
  \/ SyncSelectFails

\* the pass in flight is resumed
SchedResumes == sync_with_api_awaits(PassBodies, SchedMets, BOOLEAN)

NextSched ==
  \/ Migrate
  \/ SchedWakes
  \/ SchedResumes

SpecSched ==
  /\ Init
  /\ [][NextSched]_vars
  /\ WF_vars(Migrate)
  /\ WF_vars(SchedWakes)
  /\ WF_vars(SchedResumes)

\* ---------------------------------------------------------------------
\* Properties

Range(f) == {f[i] : i \in DOMAIN f}

\* the operations named in a call log, and the codes an operation was
\* issued for
OpsIn(log) == {log[k].op : k \in 1..Len(log)}
CodesOf(log, op) == {log[k].code : k \in {n \in 1..Len(log) : log[n].op = op}}
CountOf(log, op) == Cardinality({n \in 1..Len(log) : log[n].op = op})

StoreUnchanged ==
  /\ gift_codes' = gift_codes
  /\ user_giftcodes' = user_giftcodes
  /\ disk' = disk

\* the answers to the pull that are no list of codes
PullFailures == {"transport", "non200", "empty", "badjson", "error"}

\* C1: a pass whose pull fails in transport, answers with a status other
\* than 200, with an empty body, with a body that is no JSON or with an
\* error payload ends at that step: it returns None (False for the error
\* payload), its only outward call is the GET, and neither the start of
\* the pass nor the step that ends it changes a row of gift_codes or
\* user_giftcodes
C1_PullFailureAborts ==
  [][ /\ (sync.pc = "idle" /\ sync'.pc # "idle") => StoreUnchanged
      /\ (sync.pc # "return" /\ sync'.pc = "return"
            /\ sync'.resp \in PullFailures)
           => /\ sync.pc = "get"
              /\ sync'.ret = (IF sync'.resp = "error" THEN "False"
                              ELSE "None")
              /\ sync'.ret # "True"
              /\ StoreUnchanged
              /\ OpsIn(sync_log') = {"GET"}
              /\ Len(sync_log') = 1 ]_vars

\* a pass over a store with a row has ended on an empty answer
C1_Witness ==
  /\ sync.pc = "return"
  /\ sync.resp = "empty"
  /\ sync.ret = "None"
  /\ sync.db_codes # Empty
  /\ DOMAIN gift_codes = DOMAIN sync.db_codes

\* C2: remove_giftcode called with from_validation false returns False
\* at once: no DELETE is sent and no row changes; no call without the
\* flag ever waits for an answer to a DELETE
C2_UnvalidatedRemoveRefused ==
  [][ /\ \A slot \in DOMAIN rem :
           (rem[slot].pc = "idle" /\ rem'[slot].pc # "idle"
              /\ ~rem'[slot].from_validation)
             => /\ rem'[slot].pc = "return"
                /\ rem'[slot].ret = "False"
                /\ ~rem'[slot].called
                /\ StoreUnchanged
      /\ \A slot \in DOMAIN rem :
           rem'[slot].pc = "delete" => rem'[slot].from_validation ]_vars

\* a call without the flag for a stored code has returned False
C2_Witness ==
  /\ rem["cmd"].pc = "return"
  /\ ~rem["cmd"].from_validation
  /\ rem["cmd"].ret = "False"
  /\ rem["cmd"].giftcode \in DOMAIN gift_codes

\* the answers to a DELETE that confirm the deletion
RemovalConfirmed(kind) == kind = "ok_true"

\* C3: a validated remove_giftcode whose DELETE is answered with a status
\* other than 200, with a body that is no JSON or with a JSON body that
\* does not confirm success (success false included) returns False and
\* leaves the rows of gift_codes and user_giftcodes as they were
C3_RemoveOnlyOnConfirmedDeletion ==
  [][ \A slot \in DOMAIN rem :
        (rem[slot].pc = "delete" /\ rem'[slot].pc = "return"
           /\ ~RemovalConfirmed(rem'[slot].resp))
          => /\ rem'[slot].ret = "False"
             /\ gift_codes' = gift_codes
             /\ user_giftcodes' = user_giftcodes ]_vars

\* the answers to a POST that report success
AddConfirmed(kind) == kind \in {"ok_true", "ok_nokey"}

\* C4: add_giftcode whose POST fails (it raises, or is answered with a
\* status other than 200, with a body that is no JSON or with success
\* false) returns False and the rows of gift_codes are as they were
C4_AddOnlyOnRemoteSuccess ==
  [][ (add.pc = "post" /\ add'.pc = "return"
         /\ add'.resp \in {"transport", "non200", "badjson", "ok_false"})
        => /\ add'.ret = "False"
           /\ gift_codes' = gift_codes
           /\ user_giftcodes' = user_giftcodes ]_vars

\* C5: add_giftcode for a code gift_codes holds returns False, sends no
\* POST and changes no row
C5_AddExistingRefused ==
  [][ /\ (add.pc = "idle" /\ add'.pc # "idle"
            /\ add'.giftcode \in DOMAIN gift_codes)
           => /\ add'.pc = "return"
              /\ add'.ret = "False"
              /\ ~add'.called
              /\ StoreUnchanged
      /\ (add.pc = "idle" /\ add'.pc = "post")
           => add'.giftcode \notin DOMAIN gift_codes ]_vars

\* an add_giftcode for a stored code has returned False without a POST
C5_Witness ==
  /\ add.pc = "return"
  /\ add.giftcode \in DOMAIN gift_codes
  /\ ~add.called
  /\ add.ret = "False"

\* C6: add_giftcode and remove_giftcode expose no partial success: a call
\* that sent its request returns True with the remote and the local store
\* both updated, or False with the remote not updated and the local rows
\* as they were
C6_NoPartialSuccess ==
  [][ /\ (add.pc = "post" /\ add'.pc = "return")
           => \/ /\ add'.ret = "True"
                 /\ add'.applied
                 /\ add.giftcode \in DOMAIN gift_codes'
                 /\ add.giftcode \in DOMAIN disk'.gift_codes
              \/ /\ add'.ret = "False"
                 /\ ~add'.applied
                 /\ StoreUnchanged
      /\ \A slot \in DOMAIN rem :
           (rem[slot].pc = "delete" /\ rem'[slot].pc = "return")
             => \/ /\ rem'[slot].ret = "True"
                   /\ rem'[slot].applied
                   /\ rem[slot].giftcode \notin DOMAIN gift_codes'
                   /\ rem[slot].giftcode \notin DOMAIN disk'.gift_codes
                \/ /\ rem'[slot].ret = "False"
                   /\ ~rem'[slot].applied
                   /\ StoreUnchanged ]_vars

\* C7: every row of user_giftcodes, as the connection sees it and as it
\* is committed, names a code that has a row in gift_codes, and when
\* remove_giftcode has returned True for a code no row of user_giftcodes
\* names that code
C7_ClaimsReferToCodes ==
  /\ \A r \in user_giftcodes : r[2] \in DOMAIN gift_codes
  /\ \A r \in disk.user_giftcodes : r[2] \in DOMAIN disk.gift_codes
  /\ \A slot \in DOMAIN rem :
       (rem[slot].pc = "return" /\ rem[slot].ret = "True")
         => \A r \in user_giftcodes \cup disk.user_giftcodes :
              r[2] # rem[slot].giftcode

\* remove_giftcode has returned True for a code and deleted a claim on
\* it, and a claim on another code is left
C7_Witness ==
  /\ \E slot \in DOMAIN rem :
       /\ rem[slot].pc = "return"
       /\ rem[slot].ret = "True"
       /\ rem[slot].claims > 0
  /\ user_giftcodes # {}

\* the terminal negative outcomes
NegativeOutcomes == {"TIME_ERROR", "CDK_NOT_FOUND", "USAGE_LIMIT"}

\* the rows validate_and_clean_giftcode_file has claimed so far
VcaVisited ==
  CASE vca.pc = "claim" -> {vca.rows[k] : k \in 1..(vca.i - 1)}
    [] vca.pc = "remove" -> {vca.rows[k] : k \in 1..vca.i}
    [] vca.pc = "return" /\ vca.has_cog -> Range(vca.rows)
    [] OTHER -> {}

C8_State ==
  /\ DOMAIN vca.status = VcaVisited
  /\ Range(vca.removed) =
       {c \in DOMAIN vca.status : vca.status[c] \in NegativeOutcomes}
  /\ Len(vca.removed) = Cardinality(Range(vca.removed))
  /\ \A c \in DOMAIN vca.status :
       vca.status[c] \in {"OK", "OTHER", "RAISED"}
         => c \notin Range(vca.removed)
  /\ vca.pc = "remove"
       => /\ rem["vca"].pc # "idle"
          /\ rem["vca"].giftcode = vca.rows[vca.i]
          /\ rem["vca"].from_validation
          /\ rem["vca"].called
          /\ vca.removed[Len(vca.removed)] = vca.rows[vca.i]
  /\ vca.pc # "remove" => rem["vca"].pc = "idle"

\* C8: with the GiftOperations cog present,
\* validate_and_clean_giftcode_file claims every code gift_codes holds
\* when it starts, each once, and calls remove_giftcode(code,
\* from_validation=True) for exactly the codes whose claim answered
\* TIME_ERROR, CDK_NOT_FOUND or USAGE_LIMIT; for a code whose claim
\* answered OK or something else, or raised, it makes no such call, and
\* it goes on to the next code whatever a claim or a removal answered
C8_CleansExactlyNegativeOutcomes ==
  [][ /\ C8_State'
      /\ (vca.pc = "idle" /\ vca'.pc # "idle")
           => /\ Range(vca'.rows) = DOMAIN gift_codes
              /\ Len(vca'.rows) = Cardinality(DOMAIN gift_codes)
      /\ (vca.pc # "idle" /\ vca'.pc # "idle") => vca'.rows = vca.rows
      /\ (vca.pc \in {"claim", "remove"} /\ vca'.pc = "return")
           => vca.i = Len(vca.rows) ]_vars

\* the removal of the first of two codes failed (the code is still
\* stored) and the second code is being claimed
C8_Witness ==
  /\ vca.pc = "claim"
  /\ vca.i = 2
  /\ vca.status[vca.rows[1]] = "TIME_ERROR"
  /\ vca.removed = <<vca.rows[1]>>
  /\ vca.rows[1] \in DOMAIN gift_codes

\* the remote listed lines, none invalid and none with a code the
\* snapshot lacks
ZeroNew(s) ==
  /\ s.resp = "codes"
  /\ s.invalid_codes = <<>>
  /\ \A k \in 1..Len(s.valid_codes) :
       s.valid_codes[k].code \in DOMAIN s.db_codes

\* C9: a pass whose remote lists no new code and no invalid line changes
\* no row the connection reads and writes none of its own (its commit
\* can only publish what the connection already held), sends no DELETE,
\* no notification and no redemption, and by its return has sent one
\* POST for each code of its snapshot
C9_ZeroChangePass ==
  [][ (sync' # sync /\ ZeroNew(sync'))
        => /\ gift_codes' = gift_codes
           /\ user_giftcodes' = user_giftcodes
           /\ disk' \in {disk, Commit(gift_codes, user_giftcodes)}
           /\ OpsIn(sync_log') \cap {"DELETE", "NOTIFY", "REDEEM"} = {}
           /\ sync'.new_codes = <<>>
           /\ sync'.pc = "return"
                => /\ CodesOf(sync_log', "POST") = DOMAIN sync'.db_codes
                   /\ CountOf(sync_log', "POST")
                        = Cardinality(DOMAIN sync'.db_codes) ]_vars

\* the places of a line where a whitespace-separated token starts and ends
TokenStarts(l) ==
  {p \in 1..Len(l) : ~IsSpace(l[p]) /\ (p = 1 \/ IsSpace(l[p - 1]))}
TokenEnds(l) ==
  {p \in 1..Len(l) : ~IsSpace(l[p]) /\ (p = Len(l) \/ IsSpace(l[p + 1]))}
Least(S) == CHOOSE p \in S : \A q \in S : p <= q
Greatest(S) == CHOOSE p \in S : \A q \in S : q <= p
FirstToken(l) == SubSeq(l, Least(TokenStarts(l)), Least(TokenEnds(l)))
LastToken(l) == SubSeq(l, Greatest(TokenStarts(l)), Greatest(TokenEnds(l)))

\* ^[A-Za-z0-9]+$
IsAlnumToken(tok) ==
  /\ tok # <<>>
  /\ \A k \in 1..Len(tok) : tok[k] \in Digits \cup Upper \cup Lower

\* DD.MM.YYYY: two digits, a dot, two digits, a dot, four digits, naming a
\* day of the calendar
IsDDMMYYYY(tok) ==
  /\ Len(tok) = 10
  /\ tok[3] = "." /\ tok[6] = "."
  /\ \A k \in {1, 2, 4, 5, 7, 8, 9, 10} : tok[k] \in Digits
  /\ LET d == NumVal(SubSeq(tok, 1, 2))
         m == NumVal(SubSeq(tok, 4, 5))
         y == NumVal(SubSeq(tok, 7, 10))
     IN  /\ y >= 1
         /\ m \in 1..12
         /\ d >= 1
         /\ d <= DaysInMonth(m, y)

WellFormedLine(l) ==
  /\ Cardinality(TokenStarts(l)) = 2
  /\ IsAlnumToken(FirstToken(l))
  /\ IsDDMMYYYY(LastToken(l))

IllFormedLine(l) == ~WellFormedLine(l)

\* C10: of the lines the remote lists, each is counted once, as valid or
\* as invalid, and the valid ones are, in order, exactly the lines of two
\* whitespace-separated tokens whose first matches ^[A-Za-z0-9]+$ and
\* whose second is a calendar date written DD.MM.YYYY
C10_ClassificationExact ==
  sync.resp = "codes"
    => LET api == sync.api_giftcodes
           good == SelectSeq(api, WellFormedLine)
           bad == SelectSeq(api, IllFormedLine)
       IN  /\ Len(sync.valid_codes) + Len(sync.invalid_codes) = Len(api)
           /\ [k \in 1..Len(sync.valid_codes) |-> sync.valid_codes[k].code]
                = [k \in 1..Len(good) |-> FirstToken(good[k])]
           /\ sync.invalid_codes = [k \in 1..Len(bad) |-> Strip(bad[k])]

\* ------------------------------------------------------------------------
\* C11
\* ------------------------------------------------------------------------
\* the stored date of every code that both tables hold is the same
SameDates(gc, gc2) ==
  \A c \in DOMAIN gc \cap DOMAIN gc2 : gc2[c] = gc[c]

\* C11: gift_codes holds one row per code (giftcode is its primary key:
\* the table is a function of the code), and no step of a sync pass, of
\* add_giftcode or of the migration changes the date stored with a code
\* that is already there, neither in what the connection sees nor in the
\* committed table.
C11_InsertNeverOverwrites ==
  [][ /\ SameDates(gift_codes, gift_codes')
      /\ SameDates(disk.gift_codes, disk'.gift_codes) ]_vars

\* a pass ran its INSERT OR IGNORE for ABC123 (listed with 2024-06-01, and
\* not in the snapshot) on a table in which add_giftcode had stored ABC123
\* with today's date in the meantime: the row kept today's date
C11_Witness ==
  /\ sync.resp = "codes"
  /\ C_ABC \notin DOMAIN sync.db_codes
  /\ \E k \in DOMAIN sync.new_codes :
       /\ sync.new_codes[k].code = C_ABC
       /\ sync.new_codes[k].date = D_jun1
  /\ C_ABC \in DOMAIN gift_codes
  /\ gift_codes[C_ABC] = Strftime_Ymd(Today)
  /\ gift_codes[C_ABC] # D_jun1

\* ------------------------------------------------------------------------
\* C12
\* ------------------------------------------------------------------------
\* a step in which start_api_check calls sync_with_api
PassStarts ==
  /\ used'.calls = used.calls + 1
  /\ sync'.pc \in {"get", "return"}
  /\ sync_log' = <<>>
  /\ add' = add /\ rem' = rem /\ vca' = vca

\* C12: the scheduler calls sync_with_api only when no pass of its own is
\* in flight: the pass before, if there was one, has returned to it, however
\* long its calls took to answer.
C12_PassesNeverOverlap ==
  [][PassStarts => sync.pc = "idle"]_vars

\* the second pass of the scheduler is in flight, waiting for its GET
C12_Witness ==
  /\ used.calls = 2
  /\ sync.pc = "get"

\* ------------------------------------------------------------------------
\* C13
\* ------------------------------------------------------------------------
\* C13: a pass that ends hands the scheduler True, False or None and never
\* an exception, the scheduler's loop never ends, and (the event loop being
\* fair and every call answering or timing out) after every pass the
\* scheduler starts the next one, up to the number of passes explored.
C13_SchedulerGoesOn ==
  /\ [](sync.pc = "return" => sync.ret \in {"True", "False", "None"})
  /\ [](sync.pc # "stopped")
  /\ \A n \in 0..(MaxCalls - 1) : (used.calls = n) ~> (used.calls = n + 1)

\* a pass that met an error (the GET raised, or a SELECT or the commit
\* did) has returned and the scheduler has started the pass after it
C13_Witness ==
  /\ used.calls = 2
  /\ used.faults > 0
  /\ sync.pc = "get"

\* ------------------------------------------------------------------------
\* C14
\* ------------------------------------------------------------------------
\* the place of a logged step in the order of the pass; notifications and
\* redemptions share a place
StepRank(op) ==
  CASE op = "GET" -> 1
    [] op = "DELETE" -> 2
    [] op = "COMMIT" -> 3
    [] op \in {"NOTIFY", "REDEEM"} -> 4
    [] op = "POST" -> 5

InOrder(log) ==
  /\ log # <<>> => log[1].op = "GET"
  /\ \A a, b \in DOMAIN log :
       a < b => /\ StepRank(log[a].op) <= StepRank(log[b].op)
                /\ log[b].op \in {"GET", "COMMIT"}
                     => StepRank(log[a].op) < StepRank(log[b].op)

\* C14: the calls of a pass are made in the order GET, then the DELETEs,
\* then the one commit, then the notifications and redemptions, then the
\* POSTs; and the pass writes to gift_codes only in the step that ends
\* with its commit, so after every DELETE and before every notification,
\* redemption and POST.
C14_StepsInOrder ==
  [][ /\ InOrder(sync_log')
      /\ (sync' # sync /\ gift_codes' # gift_codes)
           => /\ sync_log' # <<>>
              /\ sync_log'[Len(sync_log')].op = "COMMIT" ]_vars

\* a pass that made calls of every kind has returned
C14_Witness ==
  /\ sync.pc = "return"
  /\ OpsIn(sync_log) = {"GET", "DELETE", "COMMIT", "NOTIFY", "REDEEM", "POST"}

\* ------------------------------------------------------------------------
\* C15
\* ------------------------------------------------------------------------
\* the first whitespace-delimited token of a line (empty for a line that
\* has none)
LeadingToken(l) == IF TokenStarts(l) = {} THEN <<>> ELSE FirstToken(l)

IsDelete(e) == e.op = "DELETE"

\* C15: the DELETEs of a pass are, in order, one per invalid line, each
\* for the first whitespace-delimited token of its line, whether or not
\* the DELETEs before it went through; and none is left out once the pass
\* is past its cleanup.
C15_CleanupSendsLeadingToken ==
  LET dels == SelectSeq(sync_log, IsDelete)
  IN  /\ Len(dels) <= Len(sync.invalid_codes)
      /\ \A k \in 1..Len(dels) :
           dels[k].code = LeadingToken(sync.invalid_codes[k])
      /\ "COMMIT" \in OpsIn(sync_log)
           => Len(dels) = Len(sync.invalid_codes)

\* ------------------------------------------------------------------------
\* C16
\* ------------------------------------------------------------------------
\* the step of a pass that runs its inserts and its commit
InsertStep ==
  /\ sync' # sync
  /\ "COMMIT" \notin OpsIn(sync_log)
  /\ "COMMIT" \in OpsIn(sync_log')

\* the calls of kind op logged for code and recipient to
Sent(log, op, code, to) ==
  {k \in 1..Len(log) : log[k].op = op /\ log[k].code = code /\ log[k].to = to}

\* C16: new_codes lists each code once, and exactly the codes whose rows
\* the inserts of the pass created; so no admin is notified twice of a code
\* and no alliance redeems it twice in one pass.
C16_NewCodesExact ==
  [][ /\ InsertStep
        => /\ \A a, b \in DOMAIN sync'.new_codes :
                sync'.new_codes[a].code = sync'.new_codes[b].code => a = b
           /\ {sync'.new_codes[k].code : k \in DOMAIN sync'.new_codes}
                = DOMAIN gift_codes' \ DOMAIN gift_codes
      /\ \A k \in DOMAIN sync_log' :
           sync_log'[k].op \in {"NOTIFY", "REDEEM"}
             => Cardinality(Sent(sync_log', sync_log'[k].op,
                                 sync_log'[k].code, sync_log'[k].to)) = 1 ]_vars

\* ------------------------------------------------------------------------
\* C17
\* ------------------------------------------------------------------------
\* C17: a pass that found new codes and returns has tried to notify every
\* admin it read of every new code and, the GiftOperations cog being there,
\* has called the redemption for every auto-claim alliance it read and
\* every new code, whichever of these calls failed; and whatever happened
\* in the dispatch, the push-back has run: every snapshot row step 7 can
\* send has had its POST.
C17_DispatchComplete ==
  (sync.pc = "return" /\ sync.resp = "codes")
    => /\ \A n \in DOMAIN sync.new_codes :
            /\ \A a \in DOMAIN sync.admin_ids :
                 Sent(sync_log, "NOTIFY", sync.new_codes[n].code,
                      sync.admin_ids[a]) # {}
            /\ sync.gift_operations
                 => \A g \in DOMAIN sync.auto_alliances :
                      Sent(sync_log, "REDEEM", sync.new_codes[n].code,
                           sync.auto_alliances[g]) # {}
       /\ \A c \in DOMAIN sync.db_codes :
            PushedDate[sync.db_codes[c]] # NoDate
              => c \in CodesOf(sync_log, "POST")

\* a pass with two new codes has returned: the notification of the first
\* failed, the second was notified all the same and both were redeemed
C17_Witness ==
  /\ sync.pc = "return"
  /\ Len(sync.new_codes) = 2
  /\ sync.new_codes[1].code # sync.new_codes[2].code
  /\ sync.gift_operations
  /\ \E k \in DOMAIN sync_log :
       /\ sync_log[k].op = "NOTIFY"
       /\ sync_log[k].code = sync.new_codes[1].code
       /\ ~sync_log[k].ok
  /\ \E k \in DOMAIN sync_log :
       /\ sync_log[k].op = "NOTIFY"
       /\ sync_log[k].code = sync.new_codes[2].code
  /\ \A n \in 1..2 :
       \E k \in DOMAIN sync_log :
         /\ sync_log[k].op = "REDEEM"
         /\ sync_log[k].code = sync.new_codes[n].code

\* ------------------------------------------------------------------------
\* C18
\* ------------------------------------------------------------------------
\* C18: a pass that got its lines and returns has sent, for every row of
\* its snapshot, a POST with the code and with a DD.MM.YYYY date that is
\* the date stored with the code, whichever POSTs failed.
C18_PushBackEverySnapshotCode ==
  (sync.pc = "return" /\ sync.resp = "codes")
    => \A c \in DOMAIN sync.db_codes :
         \E k \in DOMAIN sync_log :
           /\ sync_log[k].op = "POST"
           /\ sync_log[k].code = c
           /\ IsDDMMYYYY(sync_log[k].to)
           /\ Strftime_Ymd(Strptime_dmY(sync_log[k].to)) = sync.db_codes[c]

\* ------------------------------------------------------------------------
\* C19
\* ------------------------------------------------------------------------
\* the codes and claims that table t2 no longer holds
GoneCodes(t1, t2) == DOMAIN t1.gift_codes \ DOMAIN t2.gift_codes
GoneClaims(t1, t2) == t1.user_giftcodes \ t2.user_giftcodes

\* C19: no step of a sync pass takes a row out of gift_codes or of
\* user_giftcodes, as the connection sees them or as committed, whatever
\* the remote lists as invalid; and a committed row goes only in a step
\* of remove_giftcode called with from_validation, for that call's code.
C19_SyncNeverDeletesLocally ==
  [][ LET view == Commit(gift_codes, user_giftcodes)
          view2 == Commit(gift_codes', user_giftcodes')
      IN  /\ sync' # sync
            => /\ GoneCodes(view, view2) = {} /\ GoneClaims(view, view2) = {}
               /\ GoneCodes(disk, disk') = {} /\ GoneClaims(disk, disk') = {}
          /\ (GoneCodes(disk, disk') # {} \/ GoneClaims(disk, disk') # {})
            => \E slot \in DOMAIN rem :
                 /\ rem'[slot] # rem[slot]
                 /\ rem[slot].from_validation
                 /\ GoneCodes(disk, disk') \subseteq {rem[slot].giftcode}
                 /\ \A row \in GoneClaims(disk, disk') :
                      row[2] = rem[slot].giftcode ]_vars

\* a pass has returned that asked the remote to delete ABC123, listed on an
\* invalid line, and the remote did; ABC123 and its claim are still stored
C19_Witness ==
  /\ sync.pc = "return"
  /\ \E k \in DOMAIN sync_log :
       /\ sync_log[k].op = "DELETE"
       /\ sync_log[k].code = C_ABC
       /\ sync_log[k].ok
  /\ C_ABC \in DOMAIN sync.db_codes
  /\ C_ABC \in DOMAIN gift_codes /\ C_ABC \in DOMAIN disk.gift_codes
  /\ \E u \in Users : <<u, C_ABC>> \in user_giftcodes \cap disk.user_giftcodes

\* ------------------------------------------------------------------------
\* C20
\* ------------------------------------------------------------------------
\* some call is suspended at one of its awaits
AtAwait ==
  \/ sync.pc \notin {"idle", "return", "stopped"}
  \/ add.pc \notin {"idle", "return"}
  \/ vca.pc \notin {"idle", "return"}
  \/ \E slot \in DOMAIN rem : rem[slot].pc \notin {"idle", "return"}

\* C20: while a pass or an on-demand call is suspended at an await, the
\* shared connection holds no uncommitted write: what it sees is what is
\* committed, so no commit or rollback of another call can publish or
\* discard part of a call's writes.
C20_NoPendingWriteAtAwait ==
  AtAwait => /\ gift_codes = disk.gift_codes
             /\ user_giftcodes = disk.user_giftcodes

\* ------------------------------------------------------------------------
\* C21
\* ------------------------------------------------------------------------
\* the calls a step adds to the log of the pass
NewEvents == {k \in DOMAIN sync_log' : k > Len(sync_log)}

\* C21: every POST of the push-back is for a code that gift_codes holds
\* when the POST is sent; a code removed while the pass was suspended is
\* not sent back to the remote.
C21_PushBackOnlyStoredCodes ==
  [][ \A k \in NewEvents :
        sync_log'[k].op = "POST"
          => sync_log'[k].code \in DOMAIN gift_codes ]_vars

\* ------------------------------------------------------------------------
\* C22
\* ------------------------------------------------------------------------
\* C22: no DELETE of a pass is for a code that the pass found on a valid
\* line (and so none for a code it inserted or dispatched as new).
C22_DeleteOnlyInvalidCodes ==
  \A k \in DOMAIN sync_log :
    sync_log[k].op = "DELETE"
      => /\ \A n \in DOMAIN sync.valid_codes :
              sync.valid_codes[n].code # sync_log[k].code
         /\ \A n \in DOMAIN sync.new_codes :
              sync.new_codes[n].code # sync_log[k].code
====
